---------------------------- MODULE Spec2Model ----------------------------
(***************************************************************************)
(* A model of the Interval class of src/src/interval.ts: the parser of the *)
(* four text grammars, the accumulator, the normalizer, the arithmetic and *)
(* the formatter, driven by a client that constructs instances and calls   *)
(* the public operations.                                                  *)
(*                                                                         *)
(* Text is a TLA+ string; the parser reads it character by character       *)
(* (Chars) and the formatter builds a string, so that text written by the  *)
(* formatter is parsed again by the same code as any other text.           *)
(*                                                                         *)
(* Numbers.  A JavaScript number x with at most six decimals is the record *)
(* [w, f] with w = floor(x) and f = (x - w) * 10^6, 0 <= f < 10^6.  The    *)
(* fields months and days are held in their own unit.  The field           *)
(* microseconds exceeds the 32-bit integers of TLC (one day is             *)
(* 86,400,000,000), so it is held as the number of seconds it amounts to:  *)
(* w whole seconds and f microseconds, the value being w * 10^6 + f.  The  *)
(* microsecond counts of the model are whole numbers, and its texts carry  *)
(* at most six decimals, in binary fractions (.5, .25) wherever a product  *)
(* of the code is not followed by Math.round: within these the arithmetic  *)
(* of the code is exact, and so is the model's.  -0 is 0, as it is for     *)
(* === and for every operation of the code.                                *)
(***************************************************************************)
EXTENDS Integers, Sequences, FiniteSets, TLC

\* ------------------------------------------------------------- constants

MICROSECONDS_PER_SECOND == 1000000
SECONDS_PER_MINUTE == 60
MINUTES_PER_HOUR == 60
HOURS_PER_DAY == 24
MONTHS_PER_YEAR == 12
MICROSECONDS_PER_MILLISECOND == 1000

\* ------------------------------------------------- JavaScript numbers

\* The number w + f / 10^6.
Num(w, f) == [w |-> w, f |-> f]

\* An integer as a number.
FromInt(i) == Num(i, 0)

\* a + b
NumAdd(a, b) ==
    LET f == a.f + b.f
    IN  Num(a.w + b.w + (f \div MICROSECONDS_PER_SECOND), f % MICROSECONDS_PER_SECOND)

\* -a
NumNeg(a) ==
    IF a.f = 0 THEN Num(-a.w, 0) ELSE Num(-a.w - 1, MICROSECONDS_PER_SECOND - a.f)

\* a - b
NumSub(a, b) == NumAdd(a, NumNeg(b))

\* a < 0, a === 0, a > 0
NumIsNeg(a) == a.w < 0
NumIsZero(a) == a.w = 0 /\ a.f = 0
NumIsPos(a) == ~NumIsNeg(a) /\ ~NumIsZero(a)

\* Math.abs(a)
MathAbs(a) == IF NumIsNeg(a) THEN NumNeg(a) ELSE a

\* Math.sign(a), an integer
MathSign(a) == IF NumIsNeg(a) THEN -1 ELSE IF NumIsZero(a) THEN 0 ELSE 1

\* Math.round(a), an integer: the nearest one, a tie going up (towards
\* +Infinity) for either sign.
MathRound(a) == a.w + (IF 2 * a.f >= MICROSECONDS_PER_SECOND THEN 1 ELSE 0)

\* a * k for an integer k.  f * k is computed in two halves of three decimals
\* each, so that no product leaves the 32-bit integers.
NumMulInt(a, k) ==
    LET hi   == (a.f \div 1000) * k
        lo   == (a.f % 1000) * k
        rest == (hi % 1000) * 1000 + lo
    IN  Num(a.w * k + (hi \div 1000) + (rest \div MICROSECONDS_PER_SECOND),
            rest % MICROSECONDS_PER_SECOND)

\* Math.floor(a / d) for an integer d > 0.
NumFloorDivInt(a, d) == a.w \div d

\* a % d of JavaScript for an integer d > 0: the remainder of the truncating
\* division, which has the sign of a.
NumRemInt(a, d) ==
    IF NumIsNeg(a)
    THEN LET p == NumNeg(a) IN NumNeg(Num(p.w % d, p.f))
    ELSE Num(a.w % d, a.f)

\* Math.round(a * p / q) for integers p and q > 0, as an integer:
\* floor((2 * a * p + q) / (2 * q)).
RoundTimesRatio(a, p, q) ==
    LET n == NumMulInt(a, 2 * p)
    IN  (n.w + q) \div (2 * q)

\* --------------------------------------------- the microseconds field

\* A whole count n of microseconds in the field's representation.
Micros(n) == Num(n \div MICROSECONDS_PER_SECOND, n % MICROSECONDS_PER_SECOND)

MICROSECONDS_PER_MINUTE == NumMulInt(Micros(MICROSECONDS_PER_SECOND), SECONDS_PER_MINUTE)
MICROSECONDS_PER_HOUR == NumMulInt(MICROSECONDS_PER_MINUTE, MINUTES_PER_HOUR)
MICROSECONDS_PER_DAY == NumMulInt(MICROSECONDS_PER_HOUR, HOURS_PER_DAY)


\* Math.round(a * p / q) for a microsecond count a and integers p, q > 0, in
\* the field's representation: floor((2 * a * p + q) / (2 * q)) microseconds.
MicrosRoundTimesRatio(a, p, q) ==
    LET n == NumAdd(NumMulInt(a, 2 * p), Micros(q))
        d == 2 * q
    IN  Num(n.w \div d, ((n.w % d) * MICROSECONDS_PER_SECOND + n.f) \div d)

\* x * m for a number x and a microsecond constant m of whole seconds (an
\* hour, a minute), in the field's representation.
TimesMicros(x, m) == NumMulInt(x, m.w)

\* Math.round(seconds * MICROSECONDS_PER_SECOND) in the field's
\* representation: a number of seconds with six decimals is a whole count of
\* microseconds, which Math.round leaves as it is.
RoundSecondsToMicros(seconds) == Num(seconds.w, seconds.f)

\* ------------------------------------------------------------ strings

\* F of the value of v: a local constant of the code, computed once.
Let(v, F(_)) == CHOOSE r \in {F(x) : x \in {v}} : TRUE

\* The characters of a string, each a string of length one.
Chars(s) == [i \in 1..Len(s) |-> SubSeq(s, i, i)]

\* The string of a sequence of characters.
RECURSIVE Join(_)
Join(cs) == IF cs = <<>> THEN "" ELSE Head(cs) \o Join(Tail(cs))

Digits == Chars("0123456789")
LowerLetters == Chars("abcdefghijklmnopqrstuvwxyz")
UpperLetters == Chars("ABCDEFGHIJKLMNOPQRSTUVWXYZ")

Range(f) == {f[i] : i \in DOMAIN f}

\* \d, [a-z] with the i flag, \s
IsDigit(c) == c \in Range(Digits)
IsLetter(c) == c \in Range(LowerLetters) \cup Range(UpperLetters)
IsSpace(c) == c = " "

DigitValue(c) == (CHOOSE i \in DOMAIN Digits : Digits[i] = c) - 1

\* String.prototype.toLowerCase, on characters
ToLowerCase(cs) ==
    [i \in DOMAIN cs |->
        IF cs[i] \in Range(UpperLetters)
        THEN LowerLetters[CHOOSE k \in DOMAIN UpperLetters : UpperLetters[k] = cs[i]]
        ELSE cs[i]]

\* String.prototype.trim
RECURSIVE trim(_)
trim(cs) ==
    IF cs = <<>> THEN cs
    ELSE IF IsSpace(Head(cs)) THEN trim(Tail(cs))
    ELSE IF IsSpace(cs[Len(cs)]) THEN trim(SubSeq(cs, 1, Len(cs) - 1))
    ELSE cs

\* input.split(/\s+/): the pieces between the runs of white space; `cur` is
\* the piece being read.  The empty string splits into one empty piece.
RECURSIVE SplitFrom(_, _)
SplitFrom(cs, cur) ==
    IF cs = <<>> THEN <<cur>>
    ELSE IF IsSpace(Head(cs))
         THEN IF Len(cs) > 1 /\ IsSpace(cs[2])
              THEN SplitFrom(Tail(cs), cur)
              ELSE <<cur>> \o SplitFrom(Tail(cs), <<>>)
         ELSE SplitFrom(Tail(cs), Append(cur, Head(cs)))

split(cs) == SplitFrom(cs, <<>>)

\* input.startsWith(prefix)
startsWith(cs, prefix) ==
    Len(cs) >= Len(prefix) /\ SubSeq(cs, 1, Len(prefix)) = prefix

\* The length of the run of digits of cs that starts at position p.
DigitRun(cs, p) ==
    CHOOSE n \in 0..(Len(cs) + 1 - p) :
        /\ \A i \in p..(p + n - 1) : IsDigit(cs[i])
        /\ (p + n > Len(cs) \/ ~IsDigit(cs[p + n]))

\* 10^k
RECURSIVE Pow10(_)
Pow10(k) == IF k = 0 THEN 1 ELSE 10 * Pow10(k - 1)

\* parseInt of a string of digits
RECURSIVE parseInt(_)
parseInt(ds) ==
    IF ds = <<>> THEN 0
    ELSE parseInt(SubSeq(ds, 1, Len(ds) - 1)) * 10 + DigitValue(ds[Len(ds)])

\* The number of the fraction digits in the six decimals kept.
FractionOf(ds) == parseInt(ds) * Pow10(6 - Len(ds))

\* /^-?\d+(\.\d+)?$/.test(part)
IsNumber(part) ==
    LET p == IF part # <<>> /\ part[1] = "-" THEN 2 ELSE 1
    IN  Let(DigitRun(part, p), LAMBDA n :
            /\ n > 0
            /\ \/ p + n > Len(part)
               \/ /\ part[p + n] = "."
                  /\ Let(DigitRun(part, p + n + 1), LAMBDA m :
                         m > 0 /\ p + n + 1 + m > Len(part)))

\* parseFloat of a string that IsNumber accepts
parseFloat(part) ==
    LET neg == part[1] = "-"
        p   == IF neg THEN 2 ELSE 1
    IN  Let(p + DigitRun(part, p), LAMBDA q :
            LET frac == IF q > Len(part) THEN <<>> ELSE SubSeq(part, q + 1, Len(part))
            IN  Let(Num(parseInt(SubSeq(part, p, q - 1)), FractionOf(frac)),
                    LAMBDA mag : IF neg THEN NumNeg(mag) ELSE mag))

\* ------------------------------------------------------------ storage

UNIT_ALIASES ==
    ("years" :> "year") @@ ("year" :> "year") @@ ("yr" :> "year") @@ ("y" :> "year") @@
    ("months" :> "month") @@ ("month" :> "month") @@ ("mons" :> "month") @@
    ("mon" :> "month") @@
    ("days" :> "day") @@ ("day" :> "day") @@ ("d" :> "day") @@
    ("hours" :> "hour") @@ ("hour" :> "hour") @@ ("hr" :> "hour") @@ ("h" :> "hour") @@
    ("minutes" :> "minute") @@ ("minute" :> "minute") @@ ("mins" :> "minute") @@
    ("min" :> "minute") @@
    ("seconds" :> "second") @@ ("second" :> "second") @@ ("secs" :> "second") @@
    ("sec" :> "second") @@ ("s" :> "second") @@
    ("milliseconds" :> "millisecond") @@ ("millisecond" :> "millisecond") @@
    ("millisecs" :> "millisecond") @@ ("millisec" :> "millisecond") @@
    ("msecs" :> "millisecond") @@ ("msec" :> "millisecond") @@ ("ms" :> "millisecond") @@
    ("microseconds" :> "microsecond") @@ ("microsecond" :> "microsecond") @@
    ("microsecs" :> "microsecond") @@ ("microsec" :> "microsecond") @@
    ("usecs" :> "microsecond") @@ ("usec" :> "microsecond") @@ ("us" :> "microsecond")

\* An IntervalStorage
Storage(months, days, microseconds) ==
    [months |-> months, days |-> days, microseconds |-> microseconds]

\* The storage the constructor starts from.
EmptyStorage == Storage(FromInt(0), FromInt(0), Micros(0))

\* UNIT_ALIASES.get(unit.toLowerCase()); "" stands for undefined.
getCanonicalUnit(unit) ==
    LET key == Join(ToLowerCase(unit))
    IN  IF key \in DOMAIN UNIT_ALIASES THEN UNIT_ALIASES[key] ELSE ""

negateAllComponents(st) ==
    Storage(NumNeg(st.months), NumNeg(st.days), NumNeg(st.microseconds))

\* microseconds is a number in microseconds here, possibly with a fraction.
addMicroseconds(st, microseconds) ==
    [st EXCEPT !.microseconds = NumAdd(@, Micros(MathRound(microseconds)))]

addMonths(st, months) == [st EXCEPT !.months = NumAdd(@, months)]

addDays(st, days) == [st EXCEPT !.days = NumAdd(@, days)]

addTime(st, hours, minutes, seconds) ==
    LET totalMicroseconds ==
            NumAdd(NumAdd(TimesMicros(hours, MICROSECONDS_PER_HOUR),
                          TimesMicros(minutes, MICROSECONDS_PER_MINUTE)),
                   RoundSecondsToMicros(seconds))
    IN  [st EXCEPT !.microseconds = NumAdd(@, totalMicroseconds)]

addValueWithUnit(st, unit, value) ==
    CASE unit = "year"        -> addMonths(st, NumMulInt(value, MONTHS_PER_YEAR))
      [] unit = "month"       -> addMonths(st, value)
      [] unit = "day"         -> addDays(st, value)
      [] unit = "hour"        -> addTime(st, value, FromInt(0), FromInt(0))
      [] unit = "minute"      -> addTime(st, FromInt(0), value, FromInt(0))
      [] unit = "second"      -> addTime(st, FromInt(0), FromInt(0), value)
      [] unit = "millisecond" ->
             addMicroseconds(st, NumMulInt(value, MICROSECONDS_PER_MILLISECOND))
      [] unit = "microsecond" -> addMicroseconds(st, value)
      [] OTHER                -> st

\* ------------------------------------------------------------- parser

\* (?:(\d+)X)? at position p: the digits it captured (none when the group
\* takes no part in the match) and the position after it.
OptionalGroup(cs, p, letter) ==
    Let(DigitRun(cs, p), LAMBDA n :
        IF n > 0 /\ p + n <= Len(cs) /\ cs[p + n] = letter
        THEN [group |-> SubSeq(cs, p, p + n - 1), next |-> p + n + 1]
        ELSE [group |-> <<>>, next |-> p])

\* (?:(\d+(?:\.\d+)?)S)? at position p.
SecondsGroup(cs, p) ==
    Let(DigitRun(cs, p), LAMBDA n :
        Let(IF n > 0 /\ p + n < Len(cs) /\ cs[p + n] = "."
            THEN DigitRun(cs, p + n + 1) ELSE 0, LAMBDA m :
            Let(IF m > 0 THEN p + n + 1 + m ELSE p + n, LAMBDA e :
                IF n > 0 /\ e <= Len(cs) /\ cs[e] = "S"
                THEN [group |-> SubSeq(cs, p, e - 1), next |-> e + 1]
                ELSE [group |-> <<>>, next |-> p])))

\* The optional groups of `letters`, one after the other from position p: what
\* each captured and the position after the last.
RECURSIVE OptionalGroups(_, _, _)
OptionalGroups(cs, p, letters) ==
    IF letters = <<>> THEN [groups |-> <<>>, next |-> p]
    ELSE
    Let(IF Head(letters) = "S"
        THEN SecondsGroup(cs, p) ELSE OptionalGroup(cs, p, Head(letters)), LAMBDA g :
        Let(OptionalGroups(cs, g.next, Tail(letters)), LAMBDA rest :
            [groups |-> <<g.group>> \o rest.groups, next |-> rest.next]))

\* input.match(/^P(?:(\d+)Y)?(?:(\d+)M)?(?:(\d+)D)?
\*               (?:T(?:(\d+)H)?(?:(\d+)M)?(?:(\d+(?:\.\d+)?)S)?)?$/)
MatchISO8601(cs) ==
    IF ~startsWith(cs, <<"P">>) THEN [ok |-> FALSE]
    ELSE
    Let(OptionalGroups(cs, 2, <<"Y", "M", "D">>), LAMBDA date :
        Let(IF date.next <= Len(cs) /\ cs[date.next] = "T"
            THEN OptionalGroups(cs, date.next + 1, <<"H", "M", "S">>)
            ELSE [groups |-> <<<<>>, <<>>, <<>>>>, next |-> date.next], LAMBDA time :
            IF time.next = Len(cs) + 1
            THEN [ok |-> TRUE, years |-> date.groups[1], months |-> date.groups[2],
                  days |-> date.groups[3], hours |-> time.groups[1],
                  minutes |-> time.groups[2], seconds |-> time.groups[3]]
            ELSE [ok |-> FALSE]))

\* Each recognizer gives the storage it leaves and whether it matched.
Parsed(matched, st) == [matched |-> matched, storage |-> st]

tryParseISO8601(st, input) ==
    Let(MatchISO8601(input), LAMBDA match :
        IF ~match.ok THEN Parsed(FALSE, st)
        ELSE
        Let(IF match.years # <<>>
            THEN addMonths(st, FromInt(parseInt(match.years) * MONTHS_PER_YEAR))
            ELSE st, LAMBDA s1 :
        Let(IF match.months # <<>>
            THEN addMonths(s1, FromInt(parseInt(match.months)))
            ELSE s1, LAMBDA s2 :
        Let(IF match.days # <<>>
            THEN addDays(s2, FromInt(parseInt(match.days)))
            ELSE s2, LAMBDA s3 :
        Parsed(TRUE,
               IF match.hours # <<>> \/ match.minutes # <<>> \/ match.seconds # <<>>
               THEN addTime(s3,
                            FromInt(parseInt(match.hours)),
                            FromInt(parseInt(match.minutes)),
                            IF match.seconds # <<>>
                            THEN parseFloat(match.seconds) ELSE FromInt(0))
               ELSE s3)))))

\* The pieces of cs between the colons; `cur` is the piece being read.
RECURSIVE SplitAtColons(_, _)
SplitAtColons(cs, cur) ==
    IF cs = <<>> THEN <<cur>>
    ELSE IF Head(cs) = ":" THEN <<cur>> \o SplitAtColons(Tail(cs), <<>>)
    ELSE SplitAtColons(Tail(cs), Append(cur, Head(cs)))

\* /^\d+$/.test(cs)
IsDigits(cs) == cs # <<>> /\ \A i \in DOMAIN cs : IsDigit(cs[i])

\* input.match(/^(-)?(\d+):(\d+):(\d+)(?:\.(\d+))?$/): after the sign, three
\* pieces between two colons, the first two of digits and the third of
\* digits with an optional fraction.
MatchTimeFormat(cs) ==
    LET negative == startsWith(cs, <<"-">>)
    IN  Let(SplitAtColons(IF negative THEN Tail(cs) ELSE cs, <<>>), LAMBDA pieces :
            IF /\ Len(pieces) = 3
               /\ IsDigits(pieces[1])
               /\ IsDigits(pieces[2])
               /\ IsDigit(Head(pieces[3] \o <<"-">>))
               /\ IsNumber(pieces[3])
            THEN Let(DigitRun(pieces[3], 1), LAMBDA n :
                     [ok |-> TRUE, negative |-> negative,
                      hours |-> pieces[1], minutes |-> pieces[2],
                      seconds |-> SubSeq(pieces[3], 1, n),
                      microseconds |-> SubSeq(pieces[3], n + 2, Len(pieces[3]))])
            ELSE [ok |-> FALSE])

tryParseTimeFormat(st, input) ==
    Let(MatchTimeFormat(input), LAMBDA match :
        IF ~match.ok THEN Parsed(FALSE, st)
        ELSE
        LET multiplier == IF match.negative THEN -1 ELSE 1
            seconds == parseFloat(match.seconds \o
                           (IF match.microseconds # <<>>
                            THEN <<".">> \o match.microseconds ELSE <<>>))
        IN  Parsed(TRUE,
                   addTime(st,
                           FromInt(parseInt(match.hours) * multiplier),
                           FromInt(parseInt(match.minutes) * multiplier),
                           NumMulInt(seconds, multiplier))))

handleNegativeSign(part) == part = <<"-">>

\* /^[a-z]+s?$/i.test(part), then the alias of part.replace(/s$/, '');
\* finalValue = value * multiplier goes to the unit's field.
tryParseUnit(st, part, value, isNegative) ==
    IF part = <<>> \/ \E i \in DOMAIN part : ~IsLetter(part[i])
    THEN Parsed(FALSE, st)
    ELSE
    LET unitBase == IF part[Len(part)] = "s"
                    THEN SubSeq(part, 1, Len(part) - 1) ELSE part
        multiplier == IF isNegative THEN -1 ELSE 1
        finalValue == NumMulInt(value, multiplier)
    IN  Let(getCanonicalUnit(unitBase), LAMBDA canonicalUnit :
            IF canonicalUnit = "" THEN Parsed(FALSE, st)
            ELSE Parsed(TRUE, addValueWithUnit(st, canonicalUnit, finalValue)))

\* The loop of parseVerboseFormat over the parts that remain.
RECURSIVE VerboseLoop(_, _, _, _)
VerboseLoop(st, parts, currentValue, isNegative) ==
    IF parts = <<>> THEN st
    ELSE
    LET part == Head(parts)
        rest == Tail(parts)
    IN  IF handleNegativeSign(part)
        THEN VerboseLoop(st, rest, currentValue, TRUE)
        ELSE IF IsNumber(part)
        THEN VerboseLoop(st, rest, parseFloat(part), startsWith(part, <<"-">>))
        ELSE Let(tryParseUnit(st, part, currentValue, isNegative), LAMBDA unit :
                 IF unit.matched
                 THEN VerboseLoop(unit.storage, rest, FromInt(0), FALSE)
                 ELSE VerboseLoop(st, rest, currentValue, isNegative))

parseVerboseFormat(st, input) == VerboseLoop(st, split(input), FromInt(0), FALSE)

\* parse, with tryParseNegativeISO in it: the two call each other.
RECURSIVE parse(_, _)
RECURSIVE tryParseNegativeISO(_, _)
tryParseNegativeISO(st, input) ==
    IF ~startsWith(input, <<"-", "P">>) THEN Parsed(FALSE, st)
    ELSE Parsed(TRUE, negateAllComponents(parse(st, Tail(input))))

parse(st, input) ==
    Let(tryParseNegativeISO(st, input), LAMBDA negativeISO :
        IF negativeISO.matched THEN negativeISO.storage
        ELSE
        Let(tryParseISO8601(st, input), LAMBDA iso :
            IF iso.matched THEN iso.storage
            ELSE
            Let(tryParseTimeFormat(st, input), LAMBDA time :
                IF time.matched THEN time.storage
                ELSE parseVerboseFormat(st, input))))

\* new Interval(input) for a string: an empty string is falsy and is not
\* parsed.
IntervalFromText(text) ==
    IF text = "" THEN EmptyStorage ELSE parse(EmptyStorage, trim(Chars(text)))

\* new Interval(input) for an IntervalStorage: a copy of its fields.
IntervalFromStorage(input) == Storage(input.months, input.days, input.microseconds)

\* --------------------------------------------------------- normalizer

\* Math.floor(a / m) and a % m for microsecond counts a and m, m a constant
\* of whole seconds (a second, a minute, an hour, a day).
FloorDivMicros(a, m) == NumFloorDivInt(a, m.w)
RemMicros(a, m) == NumRemInt(a, m.w)

\* normalizeMicroseconds without the remainder: the microseconds are left
\* as they are stored.
normalizeMicrosecondsWithoutRemainder(st) ==
    [days |-> FloorDivMicros(st.microseconds, MICROSECONDS_PER_DAY),
     remainder |-> st.microseconds]

normalizeMicroseconds(st) ==
    LET totalDays == FloorDivMicros(st.microseconds, MICROSECONDS_PER_DAY)
    IN  Let(RemMicros(st.microseconds, MICROSECONDS_PER_DAY), LAMBDA remainder :
            IF NumIsNeg(st.microseconds) /\ ~NumIsZero(remainder)
            THEN [days |-> totalDays - 1,
                  remainder |-> NumAdd(remainder, MICROSECONDS_PER_DAY)]
            ELSE [days |-> totalDays, remainder |-> remainder])

normalizeStorage(st) ==
    Let(normalizeMicroseconds(st), LAMBDA n :
        Storage(st.months, NumAdd(st.days, FromInt(n.days)), n.remainder))

getStorage(st) == normalizeStorage(st)

\* --------------------------------------------------------- arithmetic

add(this, other) ==
    LET a == normalizeStorage(this)
        b == normalizeStorage(other)
    IN  IntervalFromStorage(Storage(NumAdd(a.months, b.months),
                                    NumAdd(a.days, b.days),
                                    NumAdd(a.microseconds, b.microseconds)))

subtract(this, other) ==
    LET a == normalizeStorage(this)
        b == normalizeStorage(other)
    IN  IntervalFromStorage(Storage(NumSub(a.months, b.months),
                                    NumSub(a.days, b.days),
                                    NumSub(a.microseconds, b.microseconds)))

\* The factor is the ratio p / q of two integers, q > 0.
multiply(this, p, q) ==
    LET norm == normalizeStorage(this)
    IN  IntervalFromStorage(Storage(FromInt(RoundTimesRatio(norm.months, p, q)),
                                    FromInt(RoundTimesRatio(norm.days, p, q)),
                                    MicrosRoundTimesRatio(norm.microseconds, p, q)))

\* equals on the fields as they are stored, not normalized.
equalsWithoutNormalizing(this, other) ==
    /\ this.months = other.months
    /\ this.days = other.days
    /\ this.microseconds = other.microseconds

equals(this, other) ==
    LET a == normalizeStorage(this)
        b == normalizeStorage(other)
    IN  /\ a.months = b.months
        /\ a.days = b.days
        /\ a.microseconds = b.microseconds

\* ---------------------------------------------------------- formatter

\* String.prototype.padStart
RECURSIVE padStart(_, _, _)
padStart(s, n, c) == IF Len(s) >= n THEN s ELSE padStart(c \o s, n, c)

\* The decimals of a fraction f of six digits, without the zeros at the end.
RECURSIVE TrimZeros(_)
TrimZeros(s) ==
    IF Len(s) > 0 /\ SubSeq(s, Len(s), Len(s)) = "0"
    THEN TrimZeros(SubSeq(s, 1, Len(s) - 1)) ELSE s

\* The text of a number in a template literal: `${x}`.
NumberToString(x) ==
    LET a == MathAbs(x)
    IN  (IF NumIsNeg(x) THEN "-" ELSE "") \o ToString(a.w) \o
        (IF a.f = 0 THEN "" ELSE "." \o TrimZeros(padStart(ToString(a.f), 6, "0")))

appendYearsAndMonths(parts, totalMonths) ==
    LET absMonths == MathAbs(totalMonths)
        years  == NumFloorDivInt(absMonths, MONTHS_PER_YEAR)
        months == NumRemInt(absMonths, MONTHS_PER_YEAR)
        sign   == MathSign(totalMonths)
        p1 == IF years > 0
              THEN Append(parts, ToString(sign * years) \o " year" \o
                                 (IF years # 1 THEN "s" ELSE ""))
              ELSE parts
    IN  IF NumIsPos(months)
        THEN Append(p1, NumberToString(NumMulInt(months, sign)) \o " mon" \o
                        (IF months # FromInt(1) THEN "s" ELSE ""))
        ELSE p1

appendDays(parts, days) ==
    IF ~NumIsZero(days)
    THEN Append(parts, NumberToString(days) \o " day" \o
                       (IF MathAbs(days) # FromInt(1) THEN "s" ELSE ""))
    ELSE parts

decomposeTime(microseconds) ==
    LET r0      == MathAbs(microseconds)
        hours   == FloorDivMicros(r0, MICROSECONDS_PER_HOUR)
        r1      == RemMicros(r0, MICROSECONDS_PER_HOUR)
        minutes == FloorDivMicros(r1, MICROSECONDS_PER_MINUTE)
        r2      == RemMicros(r1, MICROSECONDS_PER_MINUTE)
        seconds == FloorDivMicros(r2, Micros(MICROSECONDS_PER_SECOND))
        r3      == RemMicros(r2, Micros(MICROSECONDS_PER_SECOND))
    IN  [hours |-> hours, minutes |-> minutes, seconds |-> seconds,
         remainingMicros |-> r3.w * MICROSECONDS_PER_SECOND + r3.f,
         isNegative |-> NumIsNeg(microseconds)]

\* appendTime that returns early when the microseconds are zero or the
\* display is not forced.
appendTimeOnlyWhenForced(parts, microseconds, forceDisplay) ==
    IF NumIsZero(microseconds) \/ ~forceDisplay THEN parts
    ELSE
    Let(decomposeTime(microseconds), LAMBDA t :
        LET timeStr == (IF t.isNegative THEN "-" ELSE "") \o
                       padStart(ToString(t.hours), 2, "0") \o ":" \o
                       padStart(ToString(t.minutes), 2, "0") \o ":" \o
                       padStart(ToString(t.seconds), 2, "0")
        IN  Append(parts,
                   IF t.remainingMicros > 0
                   THEN timeStr \o "." \o padStart(ToString(t.remainingMicros), 6, "0")
                   ELSE timeStr))

\* appendTime whose fraction is the remaining microseconds as they print,
\* without padding.
appendTimeWithoutPadding(parts, microseconds, forceDisplay) ==
    IF NumIsZero(microseconds) /\ ~forceDisplay THEN parts
    ELSE
    Let(decomposeTime(microseconds), LAMBDA t :
        LET timeStr == (IF t.isNegative THEN "-" ELSE "") \o
                       padStart(ToString(t.hours), 2, "0") \o ":" \o
                       padStart(ToString(t.minutes), 2, "0") \o ":" \o
                       padStart(ToString(t.seconds), 2, "0")
        IN  Append(parts,
                   IF t.remainingMicros > 0
                   THEN timeStr \o "." \o ToString(t.remainingMicros)
                   ELSE timeStr))

appendTime(parts, microseconds, forceDisplay) ==
    IF NumIsZero(microseconds) /\ ~forceDisplay THEN parts
    ELSE
    Let(decomposeTime(microseconds), LAMBDA t :
        LET timeStr == (IF t.isNegative THEN "-" ELSE "") \o
                       padStart(ToString(t.hours), 2, "0") \o ":" \o
                       padStart(ToString(t.minutes), 2, "0") \o ":" \o
                       padStart(ToString(t.seconds), 2, "0")
        IN  Append(parts,
                   IF t.remainingMicros > 0
                   THEN timeStr \o "." \o padStart(ToString(t.remainingMicros), 6, "0")
                   ELSE timeStr))

\* parts.join(' ')
RECURSIVE join(_)
join(parts) ==
    IF parts = <<>> THEN ""
    ELSE IF Len(parts) = 1 THEN parts[1]
    ELSE parts[1] \o " " \o join(Tail(parts))

toPostgresString(st) ==
    Let(normalizeStorage(st), LAMBDA norm :
        LET p1 == appendYearsAndMonths(<<>>, norm.months)
            p2 == appendDays(p1, norm.days)
            p3 == appendTime(p2, norm.microseconds,
                             NumIsZero(norm.months) /\ NumIsZero(norm.days))
        IN  Let(join(p3), LAMBDA joined :
                IF joined = "" THEN "00:00:00" ELSE joined))

\* ------------------------------------------------------------- inputs

\* The largest magnitude of the generated texts.
MaxMagnitude == 2

\* The largest hour of the generated clock texts.
MaxClockHour == 1

Signs == {"", "-"}

ToUpperCase(cs) ==
    [i \in DOMAIN cs |->
        IF cs[i] \in Range(LowerLetters)
        THEN UpperLetters[CHOOSE k \in DOMAIN LowerLetters : LowerLetters[k] = cs[i]]
        ELSE cs[i]]

Upper(s) == Join(ToUpperCase(Chars(s)))

\* The spellings of each name of the alias table: in lower and in upper
\* case, as it is and with an s after it.
SpellingsOf ==
    [n \in DOMAIN UNIT_ALIASES |-> {n, n \o "s", Upper(n), Upper(n) \o "s"}]

UnitSpellings == UNION {SpellingsOf[n] : n \in DOMAIN UNIT_ALIASES}

AliasTexts == {"2 " \o u : u \in UnitSpellings}

LongUnits == {"year", "month", "day", "hour", "minute", "second"}

\* "n units" and "-n units"
UnitText(sign, n, unit) == sign \o ToString(n) \o " " \o unit \o "s"

SignedUnitTexts ==
    {UnitText(sign, n, u) : sign \in Signs, n \in 0..MaxMagnitude, u \in LongUnits}

\* "- n units": the sign a token of its own
SpacedSignTexts ==
    {"- " \o UnitText("", n, u) : n \in 1..MaxMagnitude, u \in LongUnits}

\* "PnY", "-PTnH", ...
IsoTexts ==
    {sign \o "P" \o ToString(n) \o x :
        sign \in Signs, n \in 0..MaxMagnitude, x \in {"Y", "M", "D"}}
    \cup
    {sign \o "PT" \o ToString(n) \o x :
        sign \in Signs, n \in 0..MaxMagnitude, x \in {"H", "M", "S"}}

\* "H:MM:SS", "-HH:MM:SS.ffffff", ...
ClockTexts ==
    {sign \o h \o ":" \o m \o ":" \o sec :
        sign \in Signs,
        h \in {ToString(n) : n \in 0..MaxClockHour} \cup {"12", "36"},
        m \in {"00", "30"},
        sec \in {"00", "06.789", "59.999999"}}

\* The texts of the specification's scenarios, of the README and of the
\* tests, and texts at the edges of the grammars.
ExampleTexts ==
    {"", "   ", " 1 day ", "1  day", "1 year",
     "1 year 2 months 3 days 04:05:06.789", "1 year 2 months 3 days 4:05:06.789",
     "P1Y2M3DT4H5M6.789S", "-P1Y2M3DT4H5M6S", "P1Y2M3DT4H5M6S", "-P1Y2M3DT4H5M6.789S",
     "1 year 2 months", "P1Y2M", "04:05:06.789", "24 months", "P2Y", "2:30:00", "PT2H30M",
     "1.5 hours", "2.5 days", "0.123456 seconds", "0.123 seconds", "2 milliseconds", "2 microseconds",
     "1.5 usec", "2.5 usec", "0.0005 msec",
     "6 months", "-30 days", "-1 year", "-P1Y", "-12:00:00",
     "1 year -2 months", "1 year - 2 months", "1 day -12 hours", "1 day - 12 hours",
     "- 2 months", "- 12 hours", "- year",
     "1 year -23 hours", "1 year -2 months 3 days -4 hours 5 minutes -6.789 seconds",
     "1 year 2 months 3 days", "1 day 2 hours 3 minutes 4 seconds",
     "1 year 2 months 3 days 4 hours 5 minutes 6.789 seconds",
     "P999Y11M30DT23H59M59.999999S", "23:59:59.999999",
     "1 month 30 days", "30 days 1 month", "1 month", "30 days",
     "24 hours", "1 day", "60 minutes", "3600 seconds", "1 hour", "36 hours", "48 hours",
     "P1DT12H", "-P1DT12H", "1 day 12 hours", "3 days 12:00:00",
     "P5M", "-P5M", "-P13M", "PT36H", "-PT36H", "-PT24H", "P", "PT", "-P",
     "P1", "P1YT", "PT.5S", "PT0.5S", "1:2", "1:2:3.",
     "-P1Y 2 days", "-Pfoo 3 days", "5", "days", "3 foo days", "2 ms days"}

Texts ==
    AliasTexts \cup SignedUnitTexts \cup SpacedSignTexts \cup IsoTexts \cup ClockTexts
    \cup ExampleTexts

\* The texts of the argument of add, subtract and equals.
OtherTexts ==
    {UnitText("-", n, u) : n \in 1..MaxMagnitude, u \in LongUnits}
    \cup {"-12 months", "-P1Y", "-12:00:00", "-PT1H", "-PT2H", "-P1D", "6 months",
          "1 day", "1 hour", "30 days 1 month", "30 days", "-P1DT12H", "12:00:00"}

\* Microsecond counts around zero, half a day and a day, of either sign.
StoredMicroseconds ==
    LET half == TimesMicros(FromInt(12), MICROSECONDS_PER_HOUR)
        some == {Micros(0), Micros(1), half, MICROSECONDS_PER_DAY,
                 NumAdd(MICROSECONDS_PER_DAY, Micros(1)),
                 NumAdd(MICROSECONDS_PER_DAY, half)}
    IN  some \cup {NumNeg(m) : m \in some}

\* The IntervalStorage objects handed to the constructor.
Storages ==
    {Storage(FromInt(m), FromInt(d), us) :
        m \in {-5, 0, 14}, d \in {-1, 0, 1}, us \in StoredMicroseconds}

\* The factors of multiply, as ratios <<p, q>>.
Factors == {<<2, 1>>, <<-1, 1>>, <<1, 2>>, <<-1, 2>>, <<3, 2>>, <<1, 4>>}

\* ------------------------------------------------------------ client
\* A client constructs an instance (the receiver), from text or from a
\* storage object, then calls one public operation on it; for add, subtract
\* and equals it first constructs the argument, from text.  From the string
\* toPostgresString returned, and from the object getStorage returned, it
\* constructs one more instance.

VARIABLES
    op,         \* the last step of the client
    given,      \* the argument of the receiver's constructor
    receiver,   \* the storage of the receiver
    givenOther, \* the text the argument instance was constructed from
    argument,   \* the storage of the argument instance
    factor,     \* the factor of multiply
    result,     \* the storage of the instance the last step returned
    rendered,   \* the string toPostgresString returned
    snapshot,   \* the object getStorage returned
    equal,      \* what equals returned
    objects,    \* which object holds each storage above (0: none yet)
    lazy,       \* the storage of an instance under construction
    eager,      \* the same storage, normalized after every accumulation call
    calls       \* the number of accumulation calls made on it

clientVars ==
    <<op, given, receiver, givenOther, argument, factor, result, rendered,
      snapshot, equal, objects>>

accumulationVars == <<lazy, eager, calls>>

vars == <<clientVars, accumulationVars>>

NoInput == [kind |-> "none"]
TextInput(t) == [kind |-> "text", text |-> t]
StorageInput(s) == [kind |-> "storage", storage |-> s]

\* An object literal or a spread ({ ...input }) makes an object that is none
\* of the objects there are.
NewObject(objs) ==
    1 + (CHOOSE n \in {objs[k] : k \in DOMAIN objs} :
            \A k \in DOMAIN objs : objs[k] <= n)

\* normalizeStorage returning this.storage itself.
normalizeStorageObjectShared(objs) == objs.receiver

\* The object normalizeStorage returns: an object literal.
normalizeStorageObject(objs) == NewObject(objs)

\* The fields of an IntervalStorage are writable, and what a client writes
\* to an object it holds.
StorageFields == {"months", "days", "microseconds"}
WrittenValue == FromInt(7)

Init ==
    /\ op = "start"
    /\ given = NoInput
    /\ receiver = EmptyStorage
    /\ givenOther = ""
    /\ argument = EmptyStorage
    /\ factor = <<1, 1>>
    /\ result = EmptyStorage
    /\ rendered = ""
    /\ snapshot = EmptyStorage
    /\ equal = FALSE
    /\ objects = [given |-> 0, receiver |-> 0, argument |-> 0, result |-> 0,
                  snapshot |-> 0]
    /\ lazy = EmptyStorage
    /\ eager = EmptyStorage
    /\ calls = 0

\* new Interval(t)
NewFromText ==
    /\ op = "start"
    /\ \E t \in Texts :
        /\ given' = TextInput(t)
        /\ receiver' = IntervalFromText(t)
    /\ objects' = [objects EXCEPT !.receiver = NewObject(objects)]
    /\ op' = "new"
    /\ UNCHANGED <<givenOther, argument, factor, result, rendered, snapshot, equal>>
    /\ UNCHANGED accumulationVars

\* new Interval({months, days, microseconds}): this.storage = { ...input }
NewFromStorage ==
    /\ op = "start"
    /\ \E s \in Storages :
        /\ given' = StorageInput(s)
        /\ receiver' = IntervalFromStorage(s)
    /\ LET input == [objects EXCEPT !.given = NewObject(objects)]
       IN  objects' = [input EXCEPT !.receiver = NewObject(input)]
    /\ op' = "new"
    /\ UNCHANGED <<givenOther, argument, factor, result, rendered, snapshot, equal>>
    /\ UNCHANGED accumulationVars

\* other = new Interval(t)
NewOther ==
    /\ op = "new"
    /\ \E t \in OtherTexts :
        /\ givenOther' = t
        /\ argument' = IntervalFromText(t)
    /\ objects' = [objects EXCEPT !.argument = NewObject(objects)]
    /\ op' = "other"
    /\ UNCHANGED <<given, receiver, factor, result, rendered, snapshot, equal>>
    /\ UNCHANGED accumulationVars

\* this.add(other)
Add ==
    /\ op = "other"
    /\ result' = add(receiver, argument)
    /\ objects' = [objects EXCEPT !.result = NewObject(objects)]
    /\ op' = "add"
    /\ UNCHANGED <<given, receiver, givenOther, argument, factor, rendered,
                   snapshot, equal>>
    /\ UNCHANGED accumulationVars

\* this.subtract(other)
Subtract ==
    /\ op = "other"
    /\ result' = subtract(receiver, argument)
    /\ objects' = [objects EXCEPT !.result = NewObject(objects)]
    /\ op' = "subtract"
    /\ UNCHANGED <<given, receiver, givenOther, argument, factor, rendered,
                   snapshot, equal>>
    /\ UNCHANGED accumulationVars

\* this.equals(other)
Equals ==
    /\ op = "other"
    /\ equal' = equals(receiver, argument)
    /\ op' = "equals"
    /\ UNCHANGED <<given, receiver, givenOther, argument, factor, result,
                   rendered, snapshot, objects>>
    /\ UNCHANGED accumulationVars

\* this.multiply(p / q)
Multiply ==
    /\ op = "new"
    /\ \E f \in Factors :
        /\ factor' = f
        /\ result' = multiply(receiver, f[1], f[2])
    /\ objects' = [objects EXCEPT !.result = NewObject(objects)]
    /\ op' = "multiply"
    /\ UNCHANGED <<given, receiver, givenOther, argument, rendered, snapshot, equal>>
    /\ UNCHANGED accumulationVars

\* this.toPostgresString()
ToPostgresString ==
    /\ op = "new"
    /\ rendered' = toPostgresString(receiver)
    /\ op' = "toPostgresString"
    /\ UNCHANGED <<given, receiver, givenOther, argument, factor, result,
                   snapshot, equal, objects>>
    /\ UNCHANGED accumulationVars

\* this.getStorage()
GetStorage ==
    /\ op = "new"
    /\ snapshot' = getStorage(receiver)
    /\ objects' = [objects EXCEPT !.snapshot = normalizeStorageObject(objects)]
    /\ op' = "getStorage"
    /\ UNCHANGED <<given, receiver, givenOther, argument, factor, result,
                   rendered, equal>>
    /\ UNCHANGED accumulationVars

\* new Interval(this.toPostgresString())
Reparse ==
    /\ op = "toPostgresString"
    /\ result' = IntervalFromText(rendered)
    /\ objects' = [objects EXCEPT !.result = NewObject(objects)]
    /\ op' = "reparse"
    /\ UNCHANGED <<given, receiver, givenOther, argument, factor, rendered,
                   snapshot, equal>>
    /\ UNCHANGED accumulationVars

\* new Interval(this.getStorage()): this.storage = { ...input }
FromSnapshot ==
    /\ op = "getStorage"
    /\ result' = IntervalFromStorage(snapshot)
    /\ objects' = [objects EXCEPT !.result = NewObject(objects)]
    /\ op' = "fromSnapshot"
    /\ UNCHANGED <<given, receiver, givenOther, argument, factor, rendered,
                   snapshot, equal>>
    /\ UNCHANGED accumulationVars

\* What is read from the storage st held in object o after field is written
\* in object written.
AfterWrite(st, o, written, field) ==
    IF o = written THEN [st EXCEPT ![field] = WrittenValue] ELSE st

\* The client writes a field of an object it holds: the object it handed to
\* the constructor or the object getStorage returned (input.days = 7).
Write ==
    /\ \/ op = "new" /\ given.kind = "storage"
       \/ op \in {"getStorage", "fromSnapshot"}
    /\ \E written \in ({objects.given, objects.snapshot} \ {0}), field \in StorageFields :
        /\ given' = IF given.kind = "storage"
                    THEN StorageInput(AfterWrite(given.storage, objects.given,
                                                 written, field))
                    ELSE given
        /\ receiver' = AfterWrite(receiver, objects.receiver, written, field)
        /\ argument' = AfterWrite(argument, objects.argument, written, field)
        /\ result' = AfterWrite(result, objects.result, written, field)
        /\ snapshot' = AfterWrite(snapshot, objects.snapshot, written, field)
    /\ op' = "write"
    /\ UNCHANGED <<givenOther, factor, rendered, equal, objects>>
    /\ UNCHANGED accumulationVars

Next ==
    \/ NewFromText
    \/ NewFromStorage
    \/ NewOther
    \/ Add
    \/ Subtract
    \/ Equals
    \/ Multiply
    \/ ToPostgresString
    \/ GetStorage
    \/ Reparse
    \/ FromSnapshot
    \/ Write

Spec == Init /\ [][Next]_vars

\* ------------------------------------------------------ accumulation
\* The parser builds the storage of an instance by calls of addMonths,
\* addDays, addMicroseconds and addTime, and the storage is normalized when
\* it is read.  Beside the storage the calls build (lazy), the same calls are
\* made on a storage that is normalized after each of them (eager).

\* The most accumulation calls made on one instance.
MaxCalls == 3

\* The amounts of the calls, of either sign.
MonthAmounts == {FromInt(-1), FromInt(1)}
DayAmounts == {FromInt(-1), FromInt(1)}
MicrosecondAmounts == {FromInt(-1), FromInt(1), FromInt(-500000), FromInt(500000)}
TimeAmounts ==
    {<<FromInt(12), FromInt(0), FromInt(0)>>, <<FromInt(-12), FromInt(0), FromInt(0)>>,
     <<FromInt(-24), FromInt(0), FromInt(0)>>, <<FromInt(1), FromInt(30), FromInt(0)>>,
     <<FromInt(0), FromInt(-1), FromInt(0)>>, <<FromInt(0), FromInt(0), FromInt(1)>>}

\* this.addMonths(months)
AddMonths ==
    /\ calls < MaxCalls
    /\ \E months \in MonthAmounts :
        /\ lazy' = addMonths(lazy, months)
        /\ eager' = normalizeStorage(addMonths(eager, months))
    /\ calls' = calls + 1
    /\ UNCHANGED clientVars

\* this.addDays(days)
AddDays ==
    /\ calls < MaxCalls
    /\ \E days \in DayAmounts :
        /\ lazy' = addDays(lazy, days)
        /\ eager' = normalizeStorage(addDays(eager, days))
    /\ calls' = calls + 1
    /\ UNCHANGED clientVars

\* this.addMicroseconds(microseconds)
AddMicroseconds ==
    /\ calls < MaxCalls
    /\ \E microseconds \in MicrosecondAmounts :
        /\ lazy' = addMicroseconds(lazy, microseconds)
        /\ eager' = normalizeStorage(addMicroseconds(eager, microseconds))
    /\ calls' = calls + 1
    /\ UNCHANGED clientVars

\* this.addTime(hours, minutes, seconds)
AddTime ==
    /\ calls < MaxCalls
    /\ \E t \in TimeAmounts :
        /\ lazy' = addTime(lazy, t[1], t[2], t[3])
        /\ eager' = normalizeStorage(addTime(eager, t[1], t[2], t[3]))
    /\ calls' = calls + 1
    /\ UNCHANGED clientVars

AccumulationNext ==
    \/ AddMonths
    \/ AddDays
    \/ AddMicroseconds
    \/ AddTime

AccumulationSpec == Init /\ [][AccumulationNext]_vars

\* ---------------------------------------------------------- properties

\* The numbers of a snapshot.
Snapshot(months, days, microseconds) ==
    Storage(FromInt(months), FromInt(days), microseconds)

\* Normalization by floor division: months as they are, days plus
\* floor(microseconds / one day), and microseconds modulo one day, which is
\* never negative.
FloorNormalized(st) ==
    Storage(st.months,
            NumAdd(st.days, FromInt(st.microseconds.w \div MICROSECONDS_PER_DAY.w)),
            Num(st.microseconds.w % MICROSECONDS_PER_DAY.w, st.microseconds.f))

\* a * p / q rounded to the nearest integer, a tie going away from zero.
RoundHalfAwayFromZero(a, p, q) ==
    IF NumIsNeg(NumMulInt(a, p))
    THEN -RoundTimesRatio(NumNeg(a), p, q)
    ELSE RoundTimesRatio(a, p, q)

\* The same for a microsecond count.
MicrosRoundHalfAwayFromZero(a, p, q) ==
    IF NumIsNeg(NumMulInt(a, p))
    THEN NumNeg(MicrosRoundTimesRatio(NumNeg(a), p, q))
    ELSE MicrosRoundTimesRatio(a, p, q)

\* C1: round trip.  The instance constructed from the string that
\* toPostgresString returned for a receiver constructed from text has the
\* snapshot of the receiver.
C1_RoundTrip ==
    (op = "reparse" /\ given.kind = "text")
        => getStorage(result) = getStorage(receiver)

\* C2: normalization is by floor division.  The snapshot getStorage returns
\* is the floor-normalized storage of the receiver, for microseconds of
\* either sign, and the snapshot of '1 day -12 hours' is
\* {months: 0, days: 0, microseconds: 43200000000}.
C2_FloorNormalization ==
    op = "getStorage" =>
        /\ snapshot = FloorNormalized(receiver)
        /\ given = TextInput("1 day -12 hours")
               => snapshot = Snapshot(0, 0, Num(43200, 0))

\* The texts of C3: a unit with a magnitude, and the same duration with the
\* magnitude negated, in the same unit or in an equivalent one.
NegatedPairs ==
    {<<UnitText("", n, u), UnitText("-", n, u)>> : n \in 1..MaxMagnitude, u \in LongUnits}
    \cup {<<"1 year", "-12 months">>}

\* C3: arithmetic identity.  Adding to an interval of one unit the interval of
\* the negated magnitude gives the snapshot of all zeros.
C3_AddOfNegatedIsZero ==
    (op = "add" /\ given.kind = "text" /\ <<given.text, givenOther>> \in NegatedPairs)
        => getStorage(result) = EmptyStorage

\* C4: a clock token after the unit pairs of verbose text is accumulated into
\* the microseconds.  The snapshot of '1 year 2 months 3 days 04:05:06.789' is
\* {months: 14, days: 3, microseconds: 14706789000}, that of
\* 'P1Y2M3DT4H5M6.789S'.
C4_ClockTokenInVerboseText ==
    (op = "getStorage" /\ given = TextInput("1 year 2 months 3 days 04:05:06.789"))
        => /\ snapshot = Snapshot(14, 3, Num(14706, 789000))
           /\ snapshot = getStorage(IntervalFromText("P1Y2M3DT4H5M6.789S"))

\* C5: a negative time renders with a minus before the time part.  For a
\* receiver of no months, no days and microseconds -t, t > 0, toPostgresString
\* returns '-' and the clock reading of t, with no day part; '-12:00:00'
\* renders as '-12:00:00'.
C5_NegativeTimeRendersWithMinus ==
    (/\ op = "toPostgresString"
     /\ NumIsZero(receiver.months)
     /\ NumIsZero(receiver.days)
     /\ NumIsNeg(receiver.microseconds))
        => /\ rendered =
                  "-" \o Head(appendTime(<<>>, MathAbs(receiver.microseconds), TRUE))
           /\ given = TextInput("-12:00:00") => rendered = "-12:00:00"

\* C6: every name of the alias table, in either letter case and with or
\* without an s after it, is a unit token: '2 <name>' leaves 2 in the field of
\* the unit the name stands for ('2 ms' is 2000 microseconds).
C6_EveryAliasRecognized ==
    (op = "new" /\ given.kind = "text") =>
        \A n \in DOMAIN UNIT_ALIASES :
            \A u \in SpellingsOf[n] :
                given.text = "2 " \o u
                    => receiver = addValueWithUnit(EmptyStorage, UNIT_ALIASES[n],
                                                   FromInt(2))

\* C7: a '-' token of its own makes the next number negative.
\* '1 year - 2 months' and '1 year -2 months' have the snapshot of 10 months,
\* and '- n <unit>s' leaves -n in the field of the unit.
C7_StandaloneMinusNegatesNextNumber ==
    (op = "new" /\ given.kind = "text") =>
        /\ given.text \in {"1 year - 2 months", "1 year -2 months"}
               => getStorage(receiver) = Snapshot(10, 0, Micros(0))
        /\ \A n \in 1..MaxMagnitude :
               \A u \in LongUnits :
                   given.text = "- " \o UnitText("", n, u)
                       => receiver = addValueWithUnit(EmptyStorage, u, FromInt(-n))

\* C8: multiply normalizes the receiver, multiplies each field by the factor
\* and rounds each product to the nearest integer, a tie going away from zero
\* (2.5 to 3, -2.5 to -3); '1 year 2 months' times 2 has 28 months.
C8_MultiplyRoundsHalfAwayFromZero ==
    op = "multiply" =>
        LET norm == getStorage(receiver)
        IN  /\ result.months =
                   FromInt(RoundHalfAwayFromZero(norm.months, factor[1], factor[2]))
            /\ result.days =
                   FromInt(RoundHalfAwayFromZero(norm.days, factor[1], factor[2]))
            /\ result.microseconds =
                   MicrosRoundHalfAwayFromZero(norm.microseconds, factor[1], factor[2])
            /\ (given = TextInput("1 year 2 months") /\ factor = <<2, 1>>)
                   => result.months = FromInt(28)

\* The pairs of texts C9 names as equal.
EqualPairs ==
    {<<"24 hours", "1 day">>, <<"60 minutes", "1 hour">>, <<"3600 seconds", "1 hour">>,
     <<"1 month 30 days", "30 days 1 month">>}

\* C9: a.equals(b) is true exactly when the snapshots of a and b agree on the
\* three fields; '24 hours' equals '1 day', '60 minutes' and '3600 seconds'
\* equal '1 hour', '1 month 30 days' equals '30 days 1 month', and '1 month'
\* does not equal '30 days'.
C9_EqualsComparesSnapshots ==
    op = "equals" =>
        /\ equal <=> (getStorage(receiver) = getStorage(argument))
        /\ (given.kind = "text" /\ <<given.text, givenOther>> \in EqualPairs) => equal
        /\ (given = TextInput("1 month") /\ givenOther = "30 days") => ~equal

\* equals has answered true for '24 hours' and '1 day', whose stored fields
\* differ.
C9_Witness ==
    /\ op = "equals"
    /\ given = TextInput("24 hours")
    /\ givenOther = "1 day"
    /\ receiver # argument
    /\ equal

\* C10: normalization is idempotent.  The instance constructed from the
\* snapshot getStorage returned has that snapshot.
C10_NormalizationIdempotent ==
    op = "fromSnapshot" => getStorage(result) = snapshot

\* An instance has been constructed from the snapshot of a receiver of
\* negative microseconds, which normalization changed.
C10_Witness ==
    /\ op = "fromSnapshot"
    /\ NumIsNeg(receiver.microseconds)
    /\ snapshot # receiver
    /\ result = snapshot

\* The string has a time part: a colon is in it.
HasTimePart(s) == \E i \in 1..Len(s) : SubSeq(s, i, i) = ":"

\* C11: toPostgresString has a time part exactly when the normalized
\* microseconds are not zero or months and days are both zero; the string is
\* never empty, and the interval of all zeros ('0 seconds') renders as
\* '00:00:00'.
C11_TimePartPresence ==
    op = "toPostgresString" =>
        LET norm == getStorage(receiver)
            none == NumIsZero(norm.months) /\ NumIsZero(norm.days)
        IN  /\ HasTimePart(rendered) <=> (~NumIsZero(norm.microseconds) \/ none)
            /\ rendered # ""
            /\ (none /\ NumIsZero(norm.microseconds)) => rendered = "00:00:00"
            /\ given = TextInput("0 seconds") => rendered = "00:00:00"

\* '0 seconds', of no months, days or microseconds, has been rendered with
\* the time part.
C11_Witness ==
    /\ op = "toPostgresString"
    /\ given = TextInput("0 seconds")
    /\ receiver = EmptyStorage
    /\ rendered = "00:00:00"

\* The six decimal digits of r, 0 <= r <= 999999.
SixDigits(r) ==
    ToString(r \div 100000) \o ToString((r \div 10000) % 10) \o
    ToString((r \div 1000) % 10) \o ToString((r \div 100) % 10) \o
    ToString((r \div 10) % 10) \o ToString(r % 10)

\* The piece of the string after its last space.
LastPiece(s) ==
    LET starts == {i \in 1..Len(s) : i = 1 \/ SubSeq(s, i - 1, i - 1) = " "}
        first  == CHOOSE i \in starts : \A j \in starts : j <= i
    IN  SubSeq(s, first, Len(s))

C13_FieldsAreIntegers ==
    (op = "getStorage" /\ given.kind = "text") =>
        /\ snapshot.months.f = 0
        /\ snapshot.days.f = 0
        /\ snapshot.microseconds.f \in 0..(MICROSECONDS_PER_SECOND - 1)

\* What the recognizers after the negated-ISO one make of the input.
parseByLaterRecognizers(st, cs) ==
    Let(tryParseISO8601(st, cs), LAMBDA iso :
        IF iso.matched THEN iso.storage
        ELSE
        Let(tryParseTimeFormat(st, cs), LAMBDA time :
            IF time.matched THEN time.storage
            ELSE parseVerboseFormat(st, cs)))

\* C16: the negated-ISO recognizer takes whole-input matches only.  Text that
\* begins with '-P' and whose rest is not an ISO-8601 duration in full
\* ('-P1Y 2 days') is declined with the fields as they were and is parsed by
\* the later recognizers, with no negation.
C16_NegatedISODeclinesPartialMatch ==
    (op = "new" /\ given.kind = "text") =>
        LET cs == trim(Chars(given.text))
        IN  (startsWith(cs, <<"-", "P">>) /\ ~MatchISO8601(Tail(cs)).ok)
                => receiver = parseByLaterRecognizers(EmptyStorage, cs)

\* C14: normalizing the storage after every accumulation call (addMonths,
\* addDays, addMicroseconds, addTime, with amounts of either sign) and
\* normalizing it once when it is read give the same getStorage() snapshot.
C14_EagerEqualsLazy == getStorage(eager) = getStorage(lazy)

\* C15: once its constructor has returned, no step changes the stored fields
\* of an instance: the receiver, the argument and the instance an operation
\* returned stay as they are under add, subtract, multiply, equals,
\* toPostgresString and getStorage, and under the client's writes to the
\* objects it holds; add, subtract and multiply return an instance of its own
\* storage; the object getStorage returns is not the storage of the instance.
C15_InstancesNeverMutated ==
    [][/\ objects.receiver # 0 => receiver' = receiver
       /\ objects.argument # 0 => argument' = argument
       /\ objects.result # 0 => result' = result
       /\ op' \in {"add", "subtract", "multiply"} =>
            /\ objects'.result # 0
            /\ objects'.result \notin {objects'.receiver, objects'.argument,
                                       objects'.given, objects'.snapshot}
       /\ objects'.snapshot # 0 =>
            objects'.snapshot \notin {objects'.receiver, objects'.argument,
                                      objects'.result}]_vars

\* The client has written to the object getStorage returned, and the instance
\* still has the fields it had.
C15_Witness ==
    /\ op = "write"
    /\ objects.snapshot # 0
    /\ snapshot.days = WrittenValue
    /\ getStorage(receiver).days # WrittenValue
    /\ receiver = IF given.kind = "text" THEN IntervalFromText(given.text)
                  ELSE IntervalFromStorage(given.storage)

=============================================================================
